---- MODULE Spec2Model ----
(***************************************************************************)
(* Model of the quota-gated lead search proxy (MCA-proxy).                 *)
(*                                                                         *)
(* The authenticated server keeps one table, users, and serves             *)
(* /auth/login, /auth/me and /search.  Every handler is an async function: *)
(* each await (a datastore query, a bcrypt comparison, a provider call) is *)
(* a point where another request may run, so every action below is the     *)
(* code that runs from one await's completion up to the next await.        *)
(***************************************************************************)
EXTENDS Integers, Sequences, FiniteSets, TLC

(***************************************************************************)
(* Bounds of the model.                                                    *)
(***************************************************************************)
\* the provider returns at most this many candidates for a text search
MaxCandidates == 2
\* the wall clock advances by at most this many months during a run
MaxTicks == 1

\* the request slots: at most two requests are in flight together
Reqs == {"r1", "r2"}

(***************************************************************************)
(* JavaScript values.  A number is a record so that NaN and Infinity stay  *)
(* apart from the integers; null and undefined are tagged pairs like the   *)
(* strings the provider returns.                                           *)
(***************************************************************************)
Num(n) == [k |-> "num", v |-> n]
NaN == [k |-> "nan", v |-> 0]
Infinity == [k |-> "inf", v |-> 0]
Null == <<"null", 0>>
Undefined == <<"undefined", 0>>
EmptyString == <<"", 0>>

\* a + b on numbers
JsAdd(a, b) ==
  IF a.k = "nan" \/ b.k = "nan" THEN NaN
  ELSE IF a.k = "inf" \/ b.k = "inf" THEN Infinity
  ELSE Num(a.v + b.v)

\* a - b on numbers (b is never Infinity in this program)
JsSub(a, b) ==
  IF a.k = "nan" \/ b.k = "nan" THEN NaN
  ELSE IF a.k = "inf" THEN Infinity
  ELSE Num(a.v - b.v)

\* a > b: every comparison with NaN is false
JsGt(a, b) ==
  IF a.k = "nan" \/ b.k = "nan" THEN FALSE
  ELSE IF a.k = "inf" THEN b.k # "inf"
  ELSE IF b.k = "inf" THEN FALSE
  ELSE a.v > b.v

\* Math.min(a, b): NaN if either argument is NaN
JsMin(a, b) ==
  IF a.k = "nan" \/ b.k = "nan" THEN NaN
  ELSE IF a.k = "inf" THEN b
  ELSE IF b.k = "inf" THEN a
  ELSE IF a.v <= b.v THEN a ELSE b

\* x || y on the tagged values: undefined, null and "" are falsy
JsOr(x, y) == IF x \in {Undefined, Null, EmptyString} THEN y ELSE x

(***************************************************************************)
(* parseInt on a string given as a sequence of characters: leading blanks  *)
(* are skipped, one sign is read, then the longest run of decimal digits;  *)
(* no digit at all gives NaN.                                              *)
(***************************************************************************)
DigitChars == <<"0", "1", "2", "3", "4", "5", "6", "7", "8", "9">>
IsDigit(c) == \E d \in 1..10 : DigitChars[d] = c
DigitVal(c) == (CHOOSE d \in 1..10 : DigitChars[d] = c) - 1

RECURSIVE SkipBlanks(_)
SkipBlanks(s) ==
  IF s # <<>> /\ Head(s) = " " THEN SkipBlanks(Tail(s)) ELSE s

\* <<value of the leading digit run of s read after acc, number of digits>>
RECURSIVE ReadDigits(_, _, _)
ReadDigits(s, acc, n) ==
  IF s # <<>> /\ IsDigit(Head(s))
  THEN ReadDigits(Tail(s), 10 * acc + DigitVal(Head(s)), n + 1)
  ELSE <<acc, n>>

ParseInt(str) ==
  LET s == SkipBlanks(str)
      neg == s # <<>> /\ Head(s) = "-"
      body == IF s # <<>> /\ Head(s) \in {"-", "+"} THEN Tail(s) ELSE s
      r == ReadDigits(body, 0, 0)
  IN IF r[2] = 0 THEN NaN ELSE Num(IF neg THEN 0 - r[1] ELSE r[1])

\* Array.prototype.slice(0, end): end NaN counts as 0, a negative end
\* counts from the back of the array
Slice0(arr, end) ==
  LET len == Len(arr)
      rel == IF end.k = "nan" THEN 0 ELSE end.v
      fin == IF end.k = "inf" THEN len
             ELSE IF rel < 0 THEN (IF len + rel > 0 THEN len + rel ELSE 0)
             ELSE IF rel < len THEN rel ELSE len
  IN SubSeq(arr, 1, fin)

(***************************************************************************)
(* Process configuration and the users table.                              *)
(***************************************************************************)
ProLimit == 1000
AgencyLimit == 2400
\* the hard ceiling of the limit query parameter
MaxLimit == 25

PLAN_LIMITS ==
  [pro |-> Num(ProLimit), agency |-> Num(AgencyLimit),
   unlimited |-> Infinity, admin |-> Infinity]
Plans == DOMAIN PLAN_LIMITS

\* the ids a token can carry: account 1 exists, account 2 was removed from
\* the table after its token was issued
UserIds == {1, 2}

\* a calendar date, reduced to what the code reads of it: year and month
December == [y |-> 2026, m |-> 11]
November == [y |-> 2026, m |-> 10]
NextMonth(d) ==
  IF d.m = 11 THEN [y |-> d.y + 1, m |-> 0] ELSE [y |-> d.y, m |-> d.m + 1]

\* bcrypt, as far as the program depends on it: compare succeeds exactly
\* on the hash of the same password
Hash(pw) == <<"bcrypt", pw>>
BcryptCompare(pw, hash) == hash = Hash(pw)

\* a row of users (initDB's columns that the handlers read or write)
UserRow(email, pw, plan, used, date) ==
  [email |-> email, password_hash |-> Hash(pw), plan |-> plan,
   searches_used |-> used, searches_reset_date |-> date]

(***************************************************************************)
(* Requests as the client sends them.                                      *)
(***************************************************************************)
\* a query parameter: absent, or a string (a sequence of characters)
NoParam == [present |-> FALSE, s |-> <<>>]
Str(s) == [present |-> TRUE, s |-> s]

\* an Authorization header: none, a token that does not verify, or a token
\* signed by this server for an account id
NoToken == [good |-> FALSE, userId |-> 0]
TokenFor(id) == [good |-> TRUE, userId |-> id]
BadToken(id) == [good |-> FALSE, userId |-> id]

NoRequest ==
  [route |-> "none", token |-> NoToken, limit |-> NoParam, details |-> NoParam,
   email |-> <<>>, password |-> ""]
SearchReq(token, limit, details) ==
  [route |-> "search", token |-> token, limit |-> limit, details |-> details,
   email |-> <<>>, password |-> ""]
MeReq(token) ==
  [route |-> "me", token |-> token, limit |-> NoParam, details |-> NoParam,
   email |-> <<>>, password |-> ""]
LoginReq(email, password) ==
  [route |-> "login", token |-> NoToken, limit |-> NoParam, details |-> NoParam,
   email |-> email, password |-> password]

RegisterReq(email, password) ==
  [route |-> "register", token |-> NoToken, limit |-> NoParam,
   details |-> NoParam, email |-> email, password |-> password]

\* verifyToken: the decoded account id, or 0 for null
verifyToken(t) == IF t.good THEN t.userId ELSE 0

(***************************************************************************)
(* The provider (Google geocoding and places), as the client sees it.      *)
(***************************************************************************)
\* the summary of the i-th place of the provider's catalogue; some places
\* carry no formatted_address and some no rating
PlaceSummary(i) ==
  [place_id |-> <<"place", i>>, name |-> <<"name", i>>,
   formatted_address |-> IF i % 2 = 0 THEN Undefined ELSE <<"addr", i>>,
   rating |-> IF i % 3 = 0 THEN Undefined ELSE <<"rating", i>>]

\* a text search answer with k results, in the provider's order
ProviderResults(k) == [j \in 1..k |-> PlaceSummary(k + 1 - j)]

\* the payloads of a details call that parse: one with a result carrying
\* every requested field, one with no result member (an error status)
FullDetail(p) ==
  [formatted_address |-> <<"daddr", p.place_id[2]>>,
   formatted_phone_number |-> <<"phone", p.place_id[2]>>,
   website |-> <<"web", p.place_id[2]>>]
NoDetail ==
  [formatted_address |-> Undefined, formatted_phone_number |-> Undefined,
   website |-> Undefined]
\* d.result?.field for the two payloads
DetailResult(outcome, p) == IF outcome = "full" THEN FullDetail(p) ELSE NoDetail

GeocodeOutcomes == {"transport", "unparseable", "noresults", "nogeometry", "ok"}
DetailOutcomes == {"transport", "unparseable", "noresult", "full"}
Rejected == {"transport", "unparseable"}

(***************************************************************************)
(* State.                                                                  *)
(*   users   the users table: account id -> row                            *)
(*   now     the wall clock (year, month), read by new Date() and by the   *)
(*           datastore's CURRENT_DATE                                      *)
(*   ticks   how many times the clock has advanced                         *)
(*   input   the request each slot receives                                *)
(*   req     each slot's handler: its position and its local variables,    *)
(*           with the response it sent and what it did to get there (the   *)
(*           provider outcomes, the calls and debits it issued, the number *)
(*           of responses sent, and for a login the requests that had been *)
(*           answered when it arrived)                                     *)
(*   users0  the users table as it was before the first request (history)  *)
(***************************************************************************)
VARIABLES users, now, ticks, input, req, users0
vars == <<users, now, ticks, input, req, users0>>

NullNum == [k |-> "null", v |-> 0]
NoUser ==
  [id |-> 0, email |-> <<>>, password_hash |-> Hash(""), plan |-> "pro",
   searches_used |-> 0, searches_reset_date |-> November]
\* the row object a SELECT returns
Loaded(id) ==
  [id |-> id, email |-> users[id].email,
   password_hash |-> users[id].password_hash, plan |-> users[id].plan,
   searches_used |-> users[id].searches_used,
   searches_reset_date |-> users[id].searches_reset_date]

NoBody ==
  [error |-> "", token |-> NoToken, used |-> NullNum, remaining |-> NullNum,
   limit |-> NullNum]
NoCalls == [geocode |-> 0, textsearch |-> 0, details |-> 0]

\* a handler that has not started
Idle ==
  [pc |-> "idle", route |-> "none", decoded |-> 0, limit |-> NaN,
   details |-> FALSE, user |-> NoUser, places |-> <<>>, pending |-> {},
   detailed |-> <<>>, douts |-> <<>>, geo |-> "none", srch |-> "none",
   found |-> 0,
   fault |-> "none", status |-> 0, body |-> NoBody, debited |-> 0,
   debits |-> 0, calls |-> NoCalls, after |-> {}, sent |-> 0]

\* respond(res, code, obj) followed by the handler's return
Respond(rq, code, body) ==
  [rq EXCEPT !.pc = "done", !.status = code, !.body = body, !.sent = @ + 1]
ErrorBody(msg) == [NoBody EXCEPT !.error = msg]

\* the catch block of each route, for an error thrown by `what`
Catch(rq, what) ==
  LET msg == CASE rq.route = "search" -> "err.message"
               [] rq.route = "me" -> "Failed to get user"
               [] rq.route = "register" -> "Registration failed"
               [] OTHER -> "Login failed"
  IN [Respond(rq, 500, ErrorBody(msg)) EXCEPT !.fault = what]

\* the user object of the /auth/login and /auth/me responses
UserBody(user) ==
  LET limit == PLAN_LIMITS[user.plan]
  IN [error |-> "", token |-> NoToken, used |-> Num(user.searches_used),
      remaining |-> IF limit = Infinity THEN NullNum
                    ELSE JsSub(limit, Num(user.searches_used)),
      limit |-> IF limit = Infinity THEN NullNum ELSE limit]

\* the /auth/login response: jwt.sign({userId: user.id, ...}) and the user
LoginBody(user) == [UserBody(user) EXCEPT !.token = TokenFor(user.id)]

\* the month rollover test of getUser and of the login handler
NeedsReset(today, resetDate) == today.y > resetDate.y \/ today.m > resetDate.m

\* UPDATE users SET searches_used = 0, searches_reset_date = CURRENT_DATE
ResetRow(tbl, id, today) ==
  IF id \in DOMAIN tbl
  THEN [tbl EXCEPT ![id].searches_used = 0, ![id].searches_reset_date = today]
  ELSE tbl

\* UPDATE users SET searches_used = searches_used + $1 WHERE id = $2
IncrementRow(tbl, id, delta) ==
  IF id \in DOMAIN tbl
  THEN [tbl EXCEPT ![id].searches_used = @ + delta]
  ELSE tbl

(***************************************************************************)
(* /search: parameters, admission, projection of places to leads.          *)
(***************************************************************************)
\* url.searchParams.get("limit") || "10"
LimitString(p) == IF p.present /\ p.s # <<>> THEN p.s ELSE <<"1", "0">>
\* Math.min(parseInt(...), 25)
ClampLimit(p) == JsMin(ParseInt(LimitString(p)), Num(MaxLimit))
\* url.searchParams.get("details") !== "false"
DetailsFlag(p) == ~(p.present /\ p.s = <<"f", "a", "l", "s", "e">>)

\* the admission test with >= in place of >: the boundary is rejected
OverQuotaOffByOne(used, limit, planLimit) ==
  planLimit # Infinity /\ ~JsGt(planLimit, JsAdd(Num(used), limit))

\* the rejection test of the admission check
OverQuota(used, limit, planLimit) ==
  planLimit # Infinity /\ JsGt(JsAdd(Num(used), limit), planLimit)

\* the lead of a place whose details call returned payload d
EnrichedLead(p, d) ==
  [businessName |-> p.name,
   address |-> JsOr(JsOr(d.formatted_address, p.formatted_address), EmptyString),
   phone |-> JsOr(d.formatted_phone_number, Null),
   website |-> JsOr(d.website, Null),
   placeId |-> p.place_id,
   rating |-> JsOr(p.rating, Null)]

\* the lead of a place without details (the catch branch and the
\* details=false branch build the same object)
BareLead(p) ==
  [businessName |-> p.name,
   address |-> JsOr(p.formatted_address, EmptyString),
   phone |-> Null, website |-> Null,
   placeId |-> p.place_id,
   rating |-> JsOr(p.rating, Null)]

\* the slot of a lead whose details call is still outstanding
PendingLead ==
  [businessName |-> Undefined, address |-> Undefined, phone |-> Undefined,
   website |-> Undefined, placeId |-> Undefined, rating |-> Undefined]

\* the admission with the geocode call sent before the quota is looked at
SearchAdmitLate(rq, user) ==
  IF user = NoUser
  THEN Respond(rq, 401, ErrorBody("User not found"))
  ELSE LET planLimit == PLAN_LIMITS[user.plan]
           sent == [rq EXCEPT !.user = user, !.calls.geocode = @ + 1]
       IN IF OverQuota(user.searches_used, rq.limit, planLimit)
          THEN Respond(sent, 403,
                 [error |-> "quota", token |-> NoToken, used |-> Num(user.searches_used),
                  remaining |-> JsSub(planLimit, Num(user.searches_used)),
                  limit |-> planLimit])
          ELSE [sent EXCEPT !.pc = "geocode"]

\* /search after getUser: account check, admission, then the geocode call
SearchAdmit(rq, user) ==
  IF user = NoUser
  THEN Respond(rq, 401, ErrorBody("User not found"))
  ELSE LET planLimit == PLAN_LIMITS[user.plan]
       IN IF OverQuota(user.searches_used, rq.limit, planLimit)
          THEN Respond([rq EXCEPT !.user = user], 403,
                 [error |-> "quota", token |-> NoToken, used |-> Num(user.searches_used),
                  remaining |-> JsSub(planLimit, Num(user.searches_used)),
                  limit |-> planLimit])
          ELSE [rq EXCEPT !.user = user, !.pc = "geocode",
                          !.calls.geocode = @ + 1]

\* /auth/me after getUser
MeRespond(rq, user) ==
  IF user = NoUser
  THEN Respond(rq, 404, ErrorBody("User not found"))
  ELSE Respond([rq EXCEPT !.user = user], 200, UserBody(user))

\* the code that follows `await getUser(decoded.userId)` in each route
AfterGetUser(rq, user) ==
  IF rq.route = "me" THEN MeRespond(rq, user) ELSE SearchAdmit(rq, user)

(***************************************************************************)
(* Actions.                                                                *)
(***************************************************************************)
\* the wall clock passes into the next month
Tick ==
  /\ ticks < MaxTicks
  /\ now' = NextMonth(now)
  /\ ticks' = ticks + 1
  /\ UNCHANGED <<users, input, req, users0>>

\* GET /search arrives: token check, parameters, getUser's SELECT is sent
SearchStart(r) ==
  /\ req[r].pc = "idle"
  /\ input[r].route = "search"
  /\ LET decoded == verifyToken(input[r].token)
         rq == [req[r] EXCEPT !.route = "search"]
     IN req' = [req EXCEPT ![r] =
          IF decoded = 0
          THEN Respond(rq, 401, ErrorBody("Unauthorized"))
          ELSE [rq EXCEPT !.pc = "select", !.decoded = decoded,
                          !.limit = ClampLimit(input[r].limit),
                          !.details = DetailsFlag(input[r].details)]]
  /\ UNCHANGED <<users, now, ticks, input, users0>>

\* GET /auth/me arrives
MeStart(r) ==
  /\ req[r].pc = "idle"
  /\ input[r].route = "me"
  /\ LET decoded == verifyToken(input[r].token)
         rq == [req[r] EXCEPT !.route = "me"]
     IN req' = [req EXCEPT ![r] =
          IF decoded = 0
          THEN Respond(rq, 401, ErrorBody("Unauthorized"))
          ELSE [rq EXCEPT !.pc = "select", !.decoded = decoded]]
  /\ UNCHANGED <<users, now, ticks, input, users0>>

\* getUser: the SELECT returns; the rollover test; the reset UPDATE is sent
GetUserSelect(r) ==
  /\ req[r].pc = "select"
  /\ \/ req' = [req EXCEPT ![r] = Catch(req[r], "select")]
     \/ LET rq == req[r]
            id == rq.decoded
        IN req' = [req EXCEPT ![r] =
             IF id \notin DOMAIN users
             THEN AfterGetUser(rq, NoUser)
             ELSE IF NeedsReset(now, users[id].searches_reset_date)
             THEN [rq EXCEPT !.pc = "reset", !.user = Loaded(id)]
             ELSE AfterGetUser(rq, Loaded(id))]
  /\ UNCHANGED <<users, now, ticks, input, users0>>

\* getUser: the reset UPDATE returns; user.searches_used = 0; return user
GetUserReset(r) ==
  /\ req[r].pc = "reset"
  /\ \/ /\ req' = [req EXCEPT ![r] = Catch(req[r], "reset")]
        /\ UNCHANGED users
     \/ /\ users' = ResetRow(users, req[r].user.id, now)
        /\ req' = [req EXCEPT ![r] =
             AfterGetUser(req[r], [req[r].user EXCEPT !.searches_used = 0])]
  /\ UNCHANGED <<now, ticks, input, users0>>

\* email.toLowerCase().trim() on an email given as a sequence of characters
LowerChar(c) ==
  CASE c = "A" -> "a" [] c = "B" -> "b" [] c = "X" -> "x" [] c = "I" -> "i"
    [] OTHER -> c
RECURSIVE TrimStart(_)
TrimStart(s) == IF s # <<>> /\ Head(s) = " " THEN TrimStart(Tail(s)) ELSE s
RECURSIVE TrimEnd(_)
TrimEnd(s) ==
  IF s # <<>> /\ s[Len(s)] = " " THEN TrimEnd(SubSeq(s, 1, Len(s) - 1)) ELSE s
NormalizeEmail(e) == TrimEnd(TrimStart([i \in 1..Len(e) |-> LowerChar(e[i])]))

\* POST /auth/login arrives: body check, the SELECT by email is sent
LoginStart(r) ==
  /\ req[r].pc = "idle"
  /\ input[r].route = "login"
  /\ LET rq == [req[r] EXCEPT !.route = "login",
                              !.after = {q \in Reqs : req[q].pc = "done"}]
     IN req' = [req EXCEPT ![r] =
          IF input[r].email = <<>> \/ input[r].password = ""
          THEN Respond(rq, 400, ErrorBody("Email and password required"))
          ELSE [rq EXCEPT !.pc = "loginSelect"]]
  /\ UNCHANGED <<users, now, ticks, input, users0>>

\* the SELECT of login keyed by the address as it was typed
LoginSelectRaw(r) ==
  /\ req[r].pc = "loginSelect"
  /\ \/ req' = [req EXCEPT ![r] = Catch(req[r], "select")]
     \/ LET rq == req[r]
            found == {id \in DOMAIN users : users[id].email = input[r].email}
        IN req' = [req EXCEPT ![r] =
             IF found = {}
             THEN Respond(rq, 401, ErrorBody("Invalid email or password"))
             ELSE [rq EXCEPT !.pc = "compare",
                             !.user = Loaded(CHOOSE id \in found : TRUE)]]
  /\ UNCHANGED <<users, now, ticks, input, users0>>

\* login: the SELECT returns; bcrypt.compare is started
LoginSelect(r) ==
  /\ req[r].pc = "loginSelect"
  /\ \/ req' = [req EXCEPT ![r] = Catch(req[r], "select")]
     \/ LET rq == req[r]
            found == {id \in DOMAIN users :
                        users[id].email = NormalizeEmail(input[r].email)}
        IN req' = [req EXCEPT ![r] =
             IF found = {}
             THEN Respond(rq, 401, ErrorBody("Invalid email or password"))
             ELSE [rq EXCEPT !.pc = "compare",
                             !.user = Loaded(CHOOSE id \in found : TRUE)]]
  /\ UNCHANGED <<users, now, ticks, input, users0>>

\* login: bcrypt.compare returns; the rollover test; the reset UPDATE is sent
LoginCompare(r) ==
  /\ req[r].pc = "compare"
  /\ LET rq == req[r]
     IN req' = [req EXCEPT ![r] =
          IF ~BcryptCompare(input[r].password, rq.user.password_hash)
          THEN Respond(rq, 401, ErrorBody("Invalid email or password"))
          ELSE IF NeedsReset(now, rq.user.searches_reset_date)
          THEN [rq EXCEPT !.pc = "loginReset"]
          ELSE Respond(rq, 200, LoginBody(rq.user))]
  /\ UNCHANGED <<users, now, ticks, input, users0>>

\* login: the reset UPDATE returns; user.searches_used = 0; respond
LoginReset(r) ==
  /\ req[r].pc = "loginReset"
  /\ \/ /\ req' = [req EXCEPT ![r] = Catch(req[r], "reset")]
        /\ UNCHANGED users
     \/ /\ users' = ResetRow(users, req[r].user.id, now)
        /\ LET user == [req[r].user EXCEPT !.searches_used = 0]
           IN req' = [req EXCEPT ![r] =
                Respond([req[r] EXCEPT !.user = user], 200, LoginBody(user))]
  /\ UNCHANGED <<now, ticks, input, users0>>

\* the geocode step with an empty result list treated as a thrown error
GeocodeReturnThrows(r) ==
  /\ req[r].pc = "geocode"
  /\ \E o \in GeocodeOutcomes :
       LET rq == [req[r] EXCEPT !.geo = o]
       IN req' = [req EXCEPT ![r] =
            IF o = "ok"
            THEN [rq EXCEPT !.pc = "textsearch", !.calls.textsearch = @ + 1]
            ELSE Catch(rq, "geocode")]
  /\ UNCHANGED <<users, now, ticks, input, users0>>

\* the geocode step without the return that follows its 404 response
GeocodeReturnNoReturn(r) ==
  /\ req[r].pc = "geocode"
  /\ \E o \in GeocodeOutcomes :
       LET rq == [req[r] EXCEPT !.geo = o]
       IN req' = [req EXCEPT ![r] =
            CASE o \in Rejected -> Catch(rq, "geocode")
              [] o = "nogeometry" -> Catch(rq, "geocode")
              [] o = "noresults" ->
                   [Respond(rq, 404, ErrorBody("Location not found"))
                      EXCEPT !.pc = "textsearch", !.calls.textsearch = @ + 1]
              [] OTHER -> [rq EXCEPT !.pc = "textsearch",
                                     !.calls.textsearch = @ + 1]]
  /\ UNCHANGED <<users, now, ticks, input, users0>>

\* /search: the geocode call returns; the text search call is sent
GeocodeReturn(r) ==
  /\ req[r].pc = "geocode"
  /\ \E o \in GeocodeOutcomes :
       LET rq == [req[r] EXCEPT !.geo = o]
       IN req' = [req EXCEPT ![r] =
            CASE o \in Rejected -> Catch(rq, "geocode")
              [] o = "nogeometry" -> Catch(rq, "geocode")
              [] o = "noresults" -> Respond(rq, 404, ErrorBody("Location not found"))
              [] OTHER -> [rq EXCEPT !.pc = "textsearch",
                                     !.calls.textsearch = @ + 1]]
  /\ UNCHANGED <<users, now, ticks, input, users0>>

\* the leads of the details=false branch
BareLeads(places) == [i \in 1..Len(places) |-> BareLead(places[i])]

\* what follows the projection: the debit UPDATE is sent
SendDebit(rq) == [rq EXCEPT !.pc = "debit"]

\* the debit taken from the requested count instead of the returned one
RequestedCount(rq) == IF rq.limit.k = "num" /\ rq.limit.v > 0 THEN rq.limit.v ELSE 0

\* the amount of the debit: actualCount = places.length
ActualCount(rq) == Len(rq.places)

\* /search: the text search call returns; truncation; then either the
\* details calls of all candidates are sent, or the bare projection is made
TextSearchReturn(r) ==
  /\ req[r].pc = "textsearch"
  /\ \/ \E o \in Rejected :
          req' = [req EXCEPT ![r] = Catch([req[r] EXCEPT !.srch = o], "textsearch")]
     \/ \E k \in 0..MaxCandidates :
          LET places == Slice0(ProviderResults(k), req[r].limit)
              n == Len(places)
              rq == [req[r] EXCEPT !.srch = "ok", !.found = k, !.places = places]
          IN req' = [req EXCEPT ![r] =
               IF rq.details /\ n > 0
               THEN [rq EXCEPT !.pc = "details", !.pending = 1..n,
                               !.detailed = [i \in 1..n |-> PendingLead],
                               !.douts = [i \in 1..n |-> "pending"],
                               !.calls.details = @ + n]
               ELSE SendDebit([rq EXCEPT
                      !.detailed = IF rq.details THEN <<>> ELSE BareLeads(places),
                      !.douts = [i \in 1..n |-> "skipped"]])]
  /\ UNCHANGED <<users, now, ticks, input, users0>>

\* the lead a details call's outcome gives for place p
LeadOf(p, o) ==
  IF o \in Rejected THEN BareLead(p) ELSE EnrichedLead(p, DetailResult(o, p))

\* the details call without its try/catch: a failed call rejects Promise.all
\* and the request ends in the handler's catch block
DetailReturnNoCatch(r, i) ==
  /\ req[r].pc = "details"
  /\ i \in req[r].pending
  /\ \E o \in DetailOutcomes :
       LET rq == [req[r] EXCEPT !.pending = @ \ {i},
                                !.detailed[i] = LeadOf(req[r].places[i], o),
                                !.douts[i] = IF o \in Rejected THEN "failed" ELSE o]
       IN req' = [req EXCEPT ![r] =
            IF o \in Rejected THEN Catch(rq, "details")
            ELSE IF rq.pending = {} THEN SendDebit(rq) ELSE rq]
  /\ UNCHANGED <<users, now, ticks, input, users0>>

\* the details calls joined by the first to settle instead of by all
DetailReturnRace(r, i) ==
  /\ req[r].pc = "details"
  /\ i \in req[r].pending
  /\ \E o \in DetailOutcomes :
       LET rq == [req[r] EXCEPT !.pending = @ \ {i},
                                !.detailed[i] = LeadOf(req[r].places[i], o),
                                !.douts[i] = IF o \in Rejected THEN "failed" ELSE o]
       IN req' = [req EXCEPT ![r] = SendDebit(rq)]
  /\ UNCHANGED <<users, now, ticks, input, users0>>

\* /search: the details call of candidate i returns or fails; when it was
\* the last one outstanding, Promise.all resolves and the debit is sent
DetailReturn(r, i) ==
  /\ req[r].pc = "details"
  /\ i \in req[r].pending
  /\ \E o \in DetailOutcomes :
       LET rq == [req[r] EXCEPT !.pending = @ \ {i},
                                !.detailed[i] = LeadOf(req[r].places[i], o),
                                !.douts[i] = IF o \in Rejected THEN "failed" ELSE o]
       IN req' = [req EXCEPT ![r] =
            IF rq.pending = {} THEN SendDebit(rq) ELSE rq]
  /\ UNCHANGED <<users, now, ticks, input, users0>>

\* the commit with an UPDATE that is applied although the handler sees it
\* fail and answers 500
DebitReturnLeaky(r) ==
  /\ req[r].pc = "debit"
  /\ LET rq == req[r]
         planLimit == PLAN_LIMITS[rq.user.plan]
         newUsed == rq.user.searches_used + ActualCount(rq)
     IN /\ users' = IncrementRow(users, rq.user.id, ActualCount(rq))
        /\ \/ req' = [req EXCEPT ![r] = Catch(rq, "debit")]
           \/ req' = [req EXCEPT ![r] =
                Respond([rq EXCEPT !.debited = @ + ActualCount(rq),
                                   !.debits = @ + 1],
                  200,
                  [error |-> "", token |-> NoToken, used |-> Num(newUsed),
                   remaining |-> IF planLimit = Infinity THEN NullNum
                                 ELSE JsSub(planLimit, Num(newUsed)),
                   limit |-> IF planLimit = Infinity THEN NullNum ELSE planLimit])]
  /\ UNCHANGED <<now, ticks, input, users0>>

\* /search: the debit UPDATE returns; the 200 response
DebitReturn(r) ==
  /\ req[r].pc = "debit"
  /\ \/ /\ req' = [req EXCEPT ![r] = Catch(req[r], "debit")]
        /\ UNCHANGED users
     \/ LET rq == req[r]
            planLimit == PLAN_LIMITS[rq.user.plan]
            newUsed == rq.user.searches_used + ActualCount(rq)
        IN /\ users' = IncrementRow(users, rq.user.id, ActualCount(rq))
           /\ req' = [req EXCEPT ![r] =
                Respond([rq EXCEPT !.debited = @ + ActualCount(rq),
                                   !.debits = @ + 1],
                  200,
                  [error |-> "", token |-> NoToken, used |-> Num(newUsed),
                   remaining |-> IF planLimit = Infinity THEN NullNum
                                 ELSE JsSub(planLimit, Num(newUsed)),
                   limit |-> IF planLimit = Infinity THEN NullNum ELSE planLimit])]
  /\ UNCHANGED <<now, ticks, input, users0>>

Next ==
  \/ Tick
  \/ \E r \in Reqs : SearchStart(r)
  \/ \E r \in Reqs : MeStart(r)
  \/ \E r \in Reqs : LoginStart(r)
  \/ \E r \in Reqs : GetUserSelect(r)
  \/ \E r \in Reqs : GetUserReset(r)
  \/ \E r \in Reqs : LoginSelect(r)
  \/ \E r \in Reqs : LoginCompare(r)
  \/ \E r \in Reqs : LoginReset(r)
  \/ \E r \in Reqs : GeocodeReturn(r)
  \/ \E r \in Reqs : TextSearchReturn(r)
  \/ \E r \in Reqs : \E i \in 1..MaxCandidates : DetailReturn(r, i)
  \/ \E r \in Reqs : DebitReturn(r)

(***************************************************************************)
(* POST /auth/register.                                                    *)
(***************************************************************************)
MinPassword == 8

\* /^[^\s@]+@[^\s@]+\.[^\s@]+$/ : no blank, one "@" after a first part, and
\* a "." inside what follows the "@"
EmailRegex(e) ==
  \E k \in 1..Len(e) :
    /\ e[k] = "@"
    /\ k > 1
    /\ \A i \in 1..Len(e) : i # k => e[i] \notin {" ", "@"}
    /\ \E d \in (k + 2)..(Len(e) - 1) : e[d] = "."

\* the next value of the id sequence (SERIAL): past every id handed out
RECURSIVE MaxOf(_)
MaxOf(S) ==
  IF S = {} THEN 0
  ELSE LET x == CHOOSE y \in S : TRUE
           m == MaxOf(S \ {x})
       IN IF x > m THEN x ELSE m
NextId(table) == MaxOf(DOMAIN table \cup UserIds) + 1

\* the row an INSERT ... RETURNING hands back
Inserted(id, row) ==
  [id |-> id, email |-> row.email, password_hash |-> row.password_hash,
   plan |-> row.plan, searches_used |-> row.searches_used,
   searches_reset_date |-> row.searches_reset_date]

\* the 201 response of /auth/register
RegisterBody(id) ==
  [error |-> "", token |-> TokenFor(id), used |-> Num(0),
   remaining |-> PLAN_LIMITS["pro"], limit |-> PLAN_LIMITS["pro"]]

\* POST /auth/register arrives: the body checks; bcrypt.hash is started
RegisterStart(r) ==
  /\ req[r].pc = "idle"
  /\ input[r].route = "register"
  /\ LET rq == [req[r] EXCEPT !.route = "register"]
     IN req' = [req EXCEPT ![r] =
          IF input[r].email = <<>> \/ input[r].password = ""
          THEN Respond(rq, 400, ErrorBody("Email and password required"))
          ELSE IF Len(input[r].password) < MinPassword
          THEN Respond(rq, 400,
                       ErrorBody("Password must be at least 8 characters"))
          ELSE IF ~EmailRegex(input[r].email)
          THEN Respond(rq, 400, ErrorBody("Invalid email address"))
          ELSE [rq EXCEPT !.pc = "hash"]]
  /\ UNCHANGED <<users, now, ticks, input, users0>>

\* register: bcrypt.hash returns; the INSERT is sent
RegisterHash(r) ==
  /\ req[r].pc = "hash"
  /\ req' = [req EXCEPT ![r].pc = "insert"]
  /\ UNCHANGED <<users, now, ticks, input, users0>>

\* the INSERT storing the address as it was typed
RegisterInsertRaw(r) ==
  /\ req[r].pc = "insert"
  /\ \/ /\ req' = [req EXCEPT ![r] = Catch(req[r], "insert")]
        /\ UNCHANGED users
     \/ LET email == input[r].email
            id == NextId(users)
            row == UserRow(email, input[r].password, "pro", 0, now)
        IN IF \E u \in DOMAIN users : users[u].email = email
           THEN /\ req' = [req EXCEPT ![r] =
                     Respond(req[r], 409,
                       ErrorBody("An account with this email already exists"))]
                /\ UNCHANGED users
           ELSE /\ users' = users @@ (id :> row)
                /\ req' = [req EXCEPT ![r] =
                     Respond([req[r] EXCEPT !.user = Inserted(id, row)], 201,
                             RegisterBody(id))]
  /\ UNCHANGED <<now, ticks, input, users0>>

\* register: the INSERT returns: the row with its defaults and a 201, a
\* unique violation (23505) and a 409, or another error and a 500
RegisterInsert(r) ==
  /\ req[r].pc = "insert"
  /\ \/ /\ req' = [req EXCEPT ![r] = Catch(req[r], "insert")]
        /\ UNCHANGED users
     \/ LET email == NormalizeEmail(input[r].email)
            id == NextId(users)
            row == UserRow(email, input[r].password, "pro", 0, now)
        IN IF \E u \in DOMAIN users : users[u].email = email
           THEN /\ req' = [req EXCEPT ![r] =
                     Respond(req[r], 409,
                       ErrorBody("An account with this email already exists"))]
                /\ UNCHANGED users
           ELSE /\ users' = users @@ (id :> row)
                /\ req' = [req EXCEPT ![r] =
                     Respond([req[r] EXCEPT !.user = Inserted(id, row)], 201,
                             RegisterBody(id))]
  /\ UNCHANGED <<now, ticks, input, users0>>

\* the server with its registration route
NextAuth ==
  \/ Next
  \/ \E r \in Reqs : RegisterStart(r)
  \/ \E r \in Reqs : RegisterHash(r)
  \/ \E r \in Reqs : RegisterInsert(r)

(***************************************************************************)
(* Initial states.  The table holds account 1; the clock reads December    *)
(* and the account's reset date is of this month or of the month before.   *)
(***************************************************************************)
Email1 == <<"a", "@", "x", ".", "i">>
Password1 == "secret-pw"

\* usage-to-date values around the admission boundaries of a plan
InitUsed(plan) ==
  LET l == PLAN_LIMITS[plan]
  IN IF l = Infinity THEN {0, AgencyLimit}
     ELSE {0, l.v - MaxLimit, l.v - MaxLimit + 1, l.v - 10, l.v - 9, l.v - 1, l.v}

InitTables ==
  UNION {{(1 :> UserRow(Email1, Password1, plan, used, date)) :
            used \in InitUsed(plan), date \in {November, December}} :
         plan \in Plans}

LimitParams ==
  {NoParam, Str(<<>>), Str(<<"0">>), Str(<<"1">>), Str(<<"2", "5">>),
   Str(<<"2", "6">>), Str(<<"-", "1">>), Str(<<"a", "b", "c">>),
   Str(<<" ", "2", "x">>)}
DetailsParams == {NoParam, Str(<<"f", "a", "l", "s", "e">>), Str(<<"0">>)}
Tokens == {NoToken, BadToken(1), TokenFor(1), TokenFor(2)}

\* the requests of the sequential specification: every parameter varies
Requests ==
  {SearchReq(t, l, d) : t \in Tokens, l \in LimitParams, d \in DetailsParams}
  \cup {MeReq(t) : t \in Tokens}
  \cup {LoginReq(e, pw) : e \in {Email1, <<" ", "A", "@", "X", ".", "I", " ">>,
                                <<"b", "@", "x", ".", "i">>, <<>>},
                          pw \in {Password1, "wrong-pw", ""}}

TypeInit ==
  /\ now = December
  /\ ticks = 0
  /\ req = [r \in Reqs |-> Idle]
  /\ users0 = users

\* one request at a time: slot r1 receives any request, slot r2 none
Init ==
  /\ users \in InitTables
  /\ input \in {[r \in Reqs |-> IF r = "r1" THEN q ELSE NoRequest] : q \in Requests}
  /\ TypeInit

Spec == Init /\ [][Next]_vars

\* the requests of the concurrent specification: searches of account 1 for
\* one or two leads, with and without enrichment, /auth/me and a login
ConcRequests ==
  {SearchReq(TokenFor(1), l, d) :
     l \in {Str(<<"1">>), Str(<<"2">>)}, d \in {NoParam, Str(<<"f", "a", "l", "s", "e">>)}}
  \cup {MeReq(TokenFor(1)), LoginReq(Email1, Password1)}

ConcTables ==
  {(1 :> UserRow(Email1, Password1, plan, used, date)) :
     plan \in {"pro"}, used \in {ProLimit - 2}, date \in {November, December}}

\* two requests in flight together
InitConc ==
  /\ users \in ConcTables
  /\ input \in [Reqs -> ConcRequests]
  /\ TypeInit

SpecConc == InitConc /\ [][Next]_vars

(***************************************************************************)
(* Properties.                                                             *)
(***************************************************************************)
Bounded(plan) == PLAN_LIMITS[plan] # Infinity
\* a /search handler that has taken its admission decision
Decided(rq) ==
  /\ rq.route = "search"
  /\ rq.user # NoUser
  /\ (rq.status = 403 \/ rq.calls.geocode > 0)

\* C1: on a bounded plan, with a numeric requested count (clamped to 25), a
\* search is admitted (goes on to the geocode call) if and only if
\* used + requested <= plan limit, and is rejected with 403 otherwise; the
\* boundary used + requested = limit is admitted.
C1_AdmitIffWithinLimit ==
  \A r \in Reqs :
    LET rq == req[r]
    IN (Decided(rq) /\ Bounded(rq.user.plan) /\ rq.limit.k = "num") =>
         LET fits == rq.user.searches_used + rq.limit.v
                       <= PLAN_LIMITS[rq.user.plan].v
         IN /\ rq.limit.v <= MaxLimit
            /\ (rq.calls.geocode > 0) <=> fits
            /\ (rq.status = 403) <=> ~fits

\* a search admitted exactly at the boundary used + requested = limit
C1_Witness ==
  \E r \in Reqs :
    /\ Decided(req[r]) /\ Bounded(req[r].user.plan) /\ req[r].limit.k = "num"
    /\ req[r].limit.v > 0
    /\ req[r].user.searches_used + req[r].limit.v = PLAN_LIMITS[req[r].user.plan].v
    /\ req[r].calls.geocode > 0

\* a search rejected one past the boundary
C1_WitnessReject ==
  \E r \in Reqs :
    /\ Decided(req[r]) /\ Bounded(req[r].user.plan) /\ req[r].limit.k = "num"
    /\ req[r].user.searches_used + req[r].limit.v = PLAN_LIMITS[req[r].user.plan].v + 1
    /\ req[r].status = 403

\* C2: a /search request that ends in the quota rejection (403) has issued
\* no geocode, text search or details call.
C2_RejectionBeforeProvider ==
  \A r \in Reqs :
    (req[r].route = "search" /\ req[r].status = 403) => req[r].calls = NoCalls

\* a search rejected for quota
C2_Witness ==
  \E r \in Reqs :
    /\ req[r].route = "search" /\ req[r].status = 403 /\ req[r].pc = "done"
    /\ req[r].body.error = "quota"

\* C3: the step in which a /search answers 200 adds to the account's stored
\* searches_used exactly the number of leads of the returned list, which is
\* the number of candidates left after truncation (all of the provider's
\* candidates when they are fewer than the requested count), whatever the
\* outcomes of the enrichment calls.
C3_DebitEqualsReturned ==
  [][\A r \in Reqs :
       (req[r].pc # "done" /\ req'[r].route = "search" /\ req'[r].status = 200) =>
         LET n == Len(req'[r].detailed)
             id == req'[r].user.id
         IN /\ id \in DOMAIN users /\ id \in DOMAIN users'
            /\ users'[id].searches_used = users[id].searches_used + n
            /\ n = Len(req'[r].places)
            /\ (req'[r].limit.k = "num" /\ req'[r].limit.v >= 0) =>
                 n = (IF req'[r].found < req'[r].limit.v
                      THEN req'[r].found ELSE req'[r].limit.v)]_vars

\* a successful search whose provider had fewer candidates than requested
\* and one of whose enrichment calls failed
C3_Witness ==
  \E r \in Reqs :
    /\ req[r].route = "search" /\ req[r].status = 200
    /\ req[r].limit.k = "num"
    /\ req[r].found > 0 /\ req[r].found < req[r].limit.v
    /\ req[r].debited = req[r].found
    /\ \E i \in 1..Len(req[r].douts) : req[r].douts[i] = "failed"
    /\ users[1].searches_used = users0[1].searches_used + req[r].found

\* the lead the code is to build for place p when its details call had
\* outcome o, written out field by field
ExpectedLead(p, o) ==
  LET i == p.place_id[2]
      summaryAddress == IF p.formatted_address = Undefined
                        THEN EmptyString ELSE p.formatted_address
  IN [businessName |-> p.name,
      address |-> IF o = "full" THEN <<"daddr", i>> ELSE summaryAddress,
      phone |-> IF o = "full" THEN <<"phone", i>> ELSE Null,
      website |-> IF o = "full" THEN <<"web", i>> ELSE Null,
      placeId |-> p.place_id,
      rating |-> IF p.rating = Undefined THEN Null ELSE p.rating]

\* C4: with the details flag set, once every details call has returned or
\* failed, the result list holds one lead per candidate in the provider's
\* order; each lead depends on its own candidate and its own call's outcome
\* only (a failed call gives phone and website null with the summary name,
\* address and rating), and no failed call ends the request: it goes on to
\* the debit and answers 200, unless the debit's datastore write fails.
C4_EnrichmentFailureDegrades ==
  \A r \in Reqs :
    LET rq == req[r]
    IN (rq.route = "search" /\ rq.details /\ rq.srch = "ok") =>
         /\ rq.fault \in {"none", "debit"}
         /\ rq.pc \in {"details", "debit", "done"}
         /\ rq.pc = "done" => (rq.status = 200 <=> rq.fault = "none")
         /\ Len(rq.detailed) = Len(rq.places)
         /\ Len(rq.douts) = Len(rq.places)
         /\ \A i \in 1..Len(rq.places) :
              IF i \in rq.pending
              THEN rq.pc = "details"
              ELSE rq.detailed[i] = ExpectedLead(rq.places[i], rq.douts[i])

\* a 200 answer with two leads in the provider's order, the first degraded
\* by a failed details call and the second enriched
C4_Witness ==
  \E r \in Reqs :
    /\ req[r].route = "search" /\ req[r].details /\ req[r].status = 200
    /\ Len(req[r].detailed) = 2
    /\ req[r].douts = <<"failed", "full">>
    /\ req[r].detailed[1].phone = Null /\ req[r].detailed[1].website = Null
    /\ req[r].detailed[1].placeId = req[r].places[1].place_id
    /\ req[r].detailed[2].phone # Null /\ req[r].detailed[2].website # Null

\* (year, month) of a strictly after (year, month) of b
MonthAfter(a, b) == a.y > b.y \/ (a.y = b.y /\ a.m > b.m)

RECURSIVE SumDebited(_)
SumDebited(S) ==
  IF S = {} THEN 0
  ELSE LET r == CHOOSE x \in S : TRUE
       IN req[r].debited + SumDebited(S \ {r})

\* the stored usage the period starts from: 0 when the table's reset date
\* is of an earlier month than the clock, else the stored value
PeriodBase ==
  IF MonthAfter(now, users0[1].searches_reset_date)
  THEN 0 ELSE users0[1].searches_used

\* C5: when the two concurrent /search requests of the account have both
\* answered 200, returning N and M leads, and the clock has stayed in one
\* month, the stored searches_used is N + M above the value the period
\* started from: no increment is lost in any interleaving.
C5_NoLostIncrement ==
  (/\ \A r \in Reqs : req[r].route = "search" /\ req[r].status = 200
   /\ ticks = 0)
  => users[1].searches_used = PeriodBase + SumDebited(Reqs)

\* C6: a /search request that ends in any failure status (401, 403, 404,
\* 500) has added nothing to the stored searches_used: usage grows only in
\* the step in which a /search answers 200, and a request that has failed
\* has sent no debit.
C6_NoDebitOnFailure ==
  [][/\ \A id \in DOMAIN users :
          users'[id].searches_used > users[id].searches_used =>
            \E r \in Reqs : /\ req[r].pc = "debit"
                            /\ req'[r].route = "search"
                            /\ req'[r].status = 200
     /\ \A r \in Reqs :
          (req'[r].pc = "done" /\ req'[r].status # 200) =>
            (req'[r].debited = 0 /\ req'[r].debits = 0)]_vars

\* a search that failed after the last provider call, at the debit itself,
\* with the stored usage as it was
C6_Witness ==
  \E r \in Reqs :
    /\ req[r].route = "search" /\ req[r].status = 500 /\ req[r].fault = "debit"
    /\ Len(req[r].places) > 0
    /\ users[1].searches_used = users0[1].searches_used

\* C7: the stored searches_used of an account decreases only by being set
\* to 0 when the clock's (year, month) is after the stored reset date's:
\* it never decreases within a month, and it is not reset a second time in
\* the month of its reset.
C7_MonotoneWithinPeriod ==
  [][\A id \in DOMAIN users :
       users'[id].searches_used < users[id].searches_used =>
         /\ users'[id].searches_used = 0
         /\ MonthAfter(now, users[id].searches_reset_date)]_vars

\* C8: every 200 answer of /search holds at most min(requested, 25) leads
\* (none when the requested count is zero, negative or not a number), for
\* every limit parameter, and at most 25 leads are debited.
C8_AtMostClampedCount ==
  \A r \in Reqs :
    (req[r].route = "search" /\ req[r].status = 200) =>
      LET ceiling == IF req[r].limit.k = "num" /\ req[r].limit.v > 0
                     THEN req[r].limit.v ELSE 0
      IN /\ ceiling <= MaxLimit
         /\ Len(req[r].detailed) <= ceiling
         /\ req[r].debited <= ceiling

\* C9: the provider's outcomes decide the outcome of an admitted search:
\* a geocode answer without results gives 404; a geocode or text search
\* call that fails in transport or does not parse (or a geocode result
\* without coordinates) gives 500; a text search with zero candidates goes
\* on to the commit and answers 200 with an empty list and a debit of 0,
\* the one other outcome being the 500 of a failed debit UPDATE.
C9_ProviderOutcomes ==
  \A r \in Reqs :
    LET rq == req[r]
    IN rq.route = "search" =>
         /\ rq.geo = "noresults" =>
              (rq.status = 404 /\ rq.pc = "done" /\ rq.calls.textsearch = 0)
         /\ rq.geo \in Rejected \cup {"nogeometry"} =>
              (rq.status = 500 /\ rq.pc = "done" /\ rq.calls.textsearch = 0)
         /\ rq.srch \in Rejected => (rq.status = 500 /\ rq.pc = "done")
         /\ (rq.srch = "ok" /\ rq.found = 0) =>
              /\ rq.pc \in {"debit", "done"}
              /\ rq.places = <<>> /\ rq.detailed = <<>> /\ rq.debited = 0
              /\ rq.pc = "done" =>
                   \/ rq.status = 200 /\ rq.fault = "none" /\ rq.debits = 1
                   \/ rq.status = 500 /\ rq.fault = "debit"
         /\ rq.pc = "done" => rq.status \in {200, 401, 403, 404, 500}

\* a search that ended 404 on a geocode answer without results
C9_Witness ==
  \E r \in Reqs :
    /\ req[r].route = "search" /\ req[r].geo = "noresults"
    /\ req[r].status = 404 /\ req[r].debited = 0

\* a search that ended 200 with an empty list on zero candidates
C9_WitnessEmpty ==
  \E r \in Reqs :
    /\ req[r].route = "search" /\ req[r].srch = "ok" /\ req[r].found = 0
    /\ req[r].status = 200 /\ req[r].detailed = <<>>
    /\ users[1].searches_used = users0[1].searches_used

\* C10: a request with a valid token whose account id has no row ends in
\* 404, on /auth/me and on /search, without any provider call (unless the
\* SELECT itself failed).
C10_VanishedAccountIs404 ==
  \A r \in Reqs :
    (/\ req[r].pc = "done"
     /\ req[r].route \in {"me", "search"}
     /\ req[r].decoded # 0
     /\ req[r].decoded \notin DOMAIN users
     /\ req[r].fault = "none")
    => (req[r].status = 404 /\ req[r].calls = NoCalls)

(***************************************************************************)
(* An account at its plan limit.  A search with a negative limit is        *)
(* admitted there and debits (see C8), after which the stored usage is     *)
(* above the limit when the next request reads it.                         *)
(***************************************************************************)
OverRequests ==
  ConcRequests
  \cup {SearchReq(TokenFor(1), Str(<<"-", "1">>), Str(<<"f", "a", "l", "s", "e">>))}

InitOver ==
  /\ users = (1 :> UserRow(Email1, Password1, "pro", ProLimit, December))
  /\ input \in [Reqs -> OverRequests]
  /\ TypeInit

SpecOver == InitOver /\ [][Next]_vars

\* C11: the remaining count carried by a 403 answer of /search is
\* max(0, plan limit - usage-to-date), and so is never negative.
C11_RemainingClamped ==
  \A r \in Reqs :
    (req[r].route = "search" /\ req[r].status = 403) =>
      LET l == PLAN_LIMITS[req[r].user.plan].v
          used == req[r].user.searches_used
      IN /\ req[r].body.remaining.k = "num"
         /\ req[r].body.remaining.v = (IF l - used > 0 THEN l - used ELSE 0)
         /\ req[r].body.remaining.v >= 0

(***************************************************************************)
(* Registration and login together: two requests in flight, among          *)
(* registrations of a fresh address in two casings, of the address of      *)
(* account 1 and of malformed input, logins, and reads of the account.     *)
(***************************************************************************)
Email2 == <<"b", "@", "x", ".", "i">>
Email2Upper == <<"B", "@", "x", ".", "i">>

AuthRequests ==
  {RegisterReq(e, pw) :
     e \in {Email2, Email2Upper, Email1, <<" ", "b", "@", "x", ".", "i">>,
            <<"b", "@", "x">>, <<>>},
     pw \in {Password1, "short"}}
  \cup {LoginReq(e, pw) : e \in {Email2, Email2Upper, Email1},
                          pw \in {Password1, "wrong-pw"}}
  \cup {MeReq(TokenFor(1)), MeReq(TokenFor(NextId(<<>>))),
        SearchReq(TokenFor(NextId(<<>>)), Str(<<"1">>), NoParam)}

InitAuth ==
  /\ users \in {(1 :> UserRow(Email1, Password1, "pro", 0, date)) :
                  date \in {November, December}}
  /\ input \in [Reqs -> AuthRequests]
  /\ TypeInit

SpecAuth == InitAuth /\ [][NextAuth]_vars

\* C12: a registration that succeeds creates an account on plan pro with
\* usage 0; no two accounts ever have addresses equal after lower-casing
\* and trimming; a registration answered 409 leaves every account as it was.
C12_RegistrationUnique ==
  [][/\ \A a, b \in DOMAIN users' :
          NormalizeEmail(users'[a].email) = NormalizeEmail(users'[b].email)
            => a = b
     /\ \A r \in Reqs :
          (req[r].route = "register" /\ req[r].pc # "done"
             /\ req'[r].pc = "done") =>
            /\ req'[r].status = 201 =>
                 \E id \in DOMAIN users' \ DOMAIN users :
                   /\ DOMAIN users' = DOMAIN users \cup {id}
                   /\ \A u \in DOMAIN users : users'[u] = users[u]
                   /\ users'[id].plan = "pro"
                   /\ users'[id].searches_used = 0
                   /\ users'[id].email = NormalizeEmail(input[r].email)
                   /\ verifyToken(req'[r].body.token) = id
            /\ req'[r].status # 201 => users' = users]_vars

\* two registrations of one address in two casings: one 201, one 409
C12_Witness ==
  /\ req["r1"].route = "register" /\ req["r1"].status = 201
  /\ req["r2"].route = "register" /\ req["r2"].status = 409
  /\ input["r1"].email # input["r2"].email
  /\ Cardinality(DOMAIN users) = 2

\* a login that arrived after registration r was answered 201, with the
\* credentials of that registration, and has been answered too
LoginAfter(r, l) ==
  /\ req[r].route = "register" /\ req[r].status = 201
  /\ req[l].route = "login" /\ req[l].pc = "done"
  /\ r \in req[l].after
  /\ input[l].email = input[r].email
  /\ input[l].password = input[r].password

\* C13: a login that follows a registration with the same credentials
\* succeeds (a failing datastore call apart, which is a 500), and the tokens
\* of both verify to one account id, the id of the account the registration
\* created.
C13_RegisterThenLogin ==
  \A r, l \in Reqs :
    LoginAfter(r, l) =>
      \/ req[l].status = 500 /\ req[l].fault # "none"
      \/ /\ req[l].status = 200
         /\ verifyToken(req[r].body.token) # 0
         /\ verifyToken(req[l].body.token) = verifyToken(req[r].body.token)
         /\ LET id == verifyToken(req[l].body.token)
            IN /\ id \in DOMAIN users \ DOMAIN users0
               /\ id = req[r].user.id
               /\ users[id].email = NormalizeEmail(input[r].email)

\* such a login answered 200, the address typed in upper case both times
C13_Witness ==
  \E r, l \in Reqs :
    /\ LoginAfter(r, l)
    /\ req[l].status = 200
    /\ input[r].email = Email2Upper

\* C14: when the month has rolled over since the account's stored reset
\* date and two requests that read the account (search, login or me) run
\* together with the clock standing still, then once both are answered and
\* the reset has been applied the stored searches_used is what one reset
\* followed by their debits gives, the sum of the counts they debited: no
\* reset erased a committed debit.
C14_ResetIdempotent ==
  (/\ MonthAfter(now, users0[1].searches_reset_date)
   /\ ticks = 0
   /\ \A r \in Reqs : req[r].pc = "done"
   /\ users[1].searches_reset_date = now)
  => users[1].searches_used = SumDebited(Reqs)

(***************************************************************************)
(* Reset dates around the clock.  The stored reset date is the database's  *)
(* CURRENT_DATE and the rollover test reads the server's local clock: a    *)
(* row written while the database's date was already of January and read   *)
(* while the server's is still of December holds a date of the month after *)
(* the clock's.                                                            *)
(***************************************************************************)
DateRequests ==
  {SearchReq(TokenFor(1), Str(<<"1">>), NoParam), MeReq(TokenFor(1)),
   LoginReq(Email1, Password1)}

InitDates ==
  /\ users \in {(1 :> UserRow(Email1, Password1, "pro", 1, date)) :
                  date \in {November, December, NextMonth(December)}}
  /\ input \in [Reqs -> DateRequests]
  /\ TypeInit

SpecDates == InitDates /\ [][Next]_vars

\* C15: getUser and login go on to the reset exactly when the clock's
\* (year, month) is strictly after the stored reset date's in lexicographic
\* order, and so never when the clock's year is before the stored year.
C15_ResetIffMonthAfter ==
  [][\A r \in Reqs :
       /\ (/\ req[r].pc = "select" /\ req'[r].pc # "select"
           /\ req'[r].fault = "none"
           /\ req[r].decoded \in DOMAIN users) =>
            (req'[r].pc = "reset" <=>
               MonthAfter(now, users[req[r].decoded].searches_reset_date))
       /\ (/\ req[r].pc = "compare" /\ req'[r].pc # "compare"
           /\ req'[r].status # 401) =>
            (req'[r].pc = "loginReset" <=>
               MonthAfter(now, req[r].user.searches_reset_date))]_vars

\* C16: the searches_used of a 200 answer of /search is the stored value
\* right after this request's debit, and searches_remaining is the plan
\* limit less that value (null on an unbounded plan), also when another
\* search commits between this request's read of the account and its debit.
C16_ResponseReflectsStored ==
  [][\A r \in Reqs :
       (req[r].pc = "debit" /\ req'[r].status = 200) =>
         LET stored == users'[req[r].user.id].searches_used
             planLimit == PLAN_LIMITS[req[r].user.plan]
         IN /\ req'[r].body.used = Num(stored)
            /\ req'[r].body.remaining =
                 (IF planLimit = Infinity THEN NullNum
                  ELSE Num(planLimit.v - stored))]_vars

\* C17: with the details flag set, the debit is sent, applied and answered
\* only when every details call of the request has returned or failed: at
\* each of these steps no call is outstanding, one call was issued per
\* candidate, and the list holds a lead for every candidate.
C17_CommitAfterAllDetails ==
  [][\A r \in Reqs :
       (/\ req[r].route = "search" /\ req[r].details
        /\ \/ req[r].pc # "debit" /\ req'[r].pc = "debit"
           \/ req[r].pc = "debit" /\ req'[r].pc = "done") =>
         /\ req'[r].pending = {}
         /\ req'[r].calls.details = Len(req'[r].places)
         /\ Len(req'[r].detailed) = Len(req'[r].places)
         /\ \A i \in 1..Len(req'[r].places) :
              /\ req'[r].douts[i] # "pending"
              /\ req'[r].detailed[i] # PendingLead
              /\ req'[r].detailed[i].placeId = req'[r].places[i].place_id
         /\ req'[r].status = 200 => req'[r].debited = Len(req'[r].places)]_vars

\* a 200 answer after two details calls, one without a result and one
\* failed: both leads are in the list and both are debited
C17_Witness ==
  \E r \in Reqs :
    /\ req[r].route = "search" /\ req[r].details /\ req[r].status = 200
    /\ req[r].calls.details = 2 /\ req[r].debited = 2
    /\ req[r].douts = <<"noresult", "failed">>

\* C18: every 500 answer, on every route, carries a generic message and
\* never the message of the error that was caught.
C18_GenericServerError ==
  \A r \in Reqs :
    req[r].status = 500 =>
      /\ req[r].body.error # "err.message"
      /\ req[r].body.error \in
           {"Registration failed", "Login failed", "Failed to get user",
            "Internal server error"}

\* C19: the stored searches_used of an account on a bounded plan never
\* exceeds the plan's limit, in any interleaving of concurrent searches.
C19_UsageWithinLimit ==
  \A id \in DOMAIN users :
    Bounded(users[id].plan) =>
      users[id].searches_used <= PLAN_LIMITS[users[id].plan].v

(***************************************************************************)
(* Progress.  The event loop runs the continuation of a handler once the   *)
(* call it awaits has settled, and every provider and datastore call       *)
(* settles: each request's handler is weakly fair.                         *)
(***************************************************************************)
Handler(r) ==
  \/ SearchStart(r) \/ MeStart(r) \/ LoginStart(r)
  \/ GetUserSelect(r) \/ GetUserReset(r)
  \/ LoginSelect(r) \/ LoginCompare(r) \/ LoginReset(r)
  \/ GeocodeReturn(r) \/ TextSearchReturn(r)
  \/ (\E i \in 1..MaxCandidates : DetailReturn(r, i))
  \/ DebitReturn(r)

LiveSearches ==
  {SearchReq(t, Str(<<"1">>), NoParam) :
     t \in {NoToken, TokenFor(1), TokenFor(2)}}
  \cup {SearchReq(TokenFor(1), Str(<<"2">>), NoParam)}

InitLive ==
  /\ users \in {(1 :> UserRow(Email1, Password1, "pro", ProLimit - 1, date)) :
                  date \in {November, December}}
  /\ input \in {[r \in Reqs |-> IF r = "r1" THEN a ELSE b] :
                  a \in LiveSearches,
                  b \in {NoRequest, MeReq(TokenFor(1)),
                         LoginReq(Email1, Password1)}}
  /\ TypeInit

SpecLive ==
  InitLive /\ [][Next]_vars /\ \A r \in Reqs : WF_vars(Handler(r))

SearchStatuses == {200, 401, 403, 404, 500}

\* C20: provided every provider and datastore call returns or fails, a
\* /search request eventually ends, having sent exactly one response with
\* one of the statuses 200, 401, 403, 404, 500; at no time has it sent two,
\* it has answered exactly when it has ended, and it has issued at most one
\* geocode call, one text search call, one details call per candidate and
\* one debit (no step is retried).
C20_SearchTerminatesOnce ==
  \A r \in Reqs :
    /\ [](req[r].route = "search" =>
           /\ req[r].sent = (IF req[r].pc = "done" THEN 1 ELSE 0)
           /\ req[r].calls.geocode <= 1
           /\ req[r].calls.textsearch <= 1
           /\ req[r].calls.details <= Len(req[r].places)
           /\ req[r].debits <= 1)
    /\ (input[r].route = "search") ~>
         (/\ req[r].pc = "done" /\ req[r].sent = 1
          /\ req[r].status \in SearchStatuses)

\* a search that went through every step, two details calls included, and
\* has sent its one response
C20_Witness ==
  \E r \in Reqs :
    /\ req[r].route = "search" /\ req[r].pc = "done" /\ req[r].sent = 1
    /\ req[r].status = 200
    /\ req[r].calls = [details |-> 2, geocode |-> 1, textsearch |-> 1]
    /\ req[r].debits = 1
====
